---- MODULE Spec2Model ----
(***************************************************************************)
(* Santa Clara County property scraper (src/main.py).                      *)
(*                                                                         *)
(* The module models main(): the resolution pipeline search_property with  *)
(* its fallback chain of remote calls, the heuristic page parser           *)
(* parse_property_page, the merge of the two sources and the output        *)
(* shaper.  Remote services are the environment: every remote call draws   *)
(* its response from a bounded set of responses.                           *)
(*                                                                         *)
(* Python values are tagged records: None, Str(<<chars>>), PyInt(n),       *)
(* PyBool(b).  A Python str is a sequence of one-character strings.  A     *)
(* Python dict is a TLA+ function (record) from key to value; a key that   *)
(* is absent from the dict is absent from the DOMAIN.                      *)
(***************************************************************************)
EXTENDS Integers, Sequences, FiniteSets, TLC

VARIABLES
    pc,             \* position in main / search_property
    args,           \* parsed command line: [demo, query]
    query,          \* search_property's `query`
    net,            \* the response of the last remote call (message in flight)
    calls,          \* every rate_limit() sleep and remote call made, in order
    geo,            \* search_property's `geo` (top geocode candidate)
    feature,        \* search_property's `feature`
    resolved_apn,   \* search_property's `resolved_apn`
    situs,          \* search_property's `situs`
    raw,            \* main's `raw` (the RawSearchResult returned)
    parsed,         \* main's `parsed` (the page's fields)
    result,         \* main's `result`
    output,         \* records written to the output path, in order
    exit_code,      \* process exit status; -1 while the process runs
    exc             \* the uncaught exception that ended the process, if any

vars == <<pc, args, query, net, calls, geo, feature, resolved_apn, situs, raw,
          parsed, result, output, exit_code, exc>>

-----------------------------------------------------------------------------
(* Bounds of the model.                                                    *)

\* Longest `features` array a feature-service response carries.
MaxFeats == 2
\* Longest `candidates` array a geocoder response carries.
MaxCands == 3

-----------------------------------------------------------------------------
(* Python values.                                                          *)

None == [t |-> "None"]
Str(s) == [t |-> "str", s |-> s]
PyInt(n) == [t |-> "int", n |-> n]
PyBool(b) == [t |-> "bool", b |-> b]

IsStr(v) == "t" \in DOMAIN v /\ v.t = "str"
IsInt(v) == "t" \in DOMAIN v /\ v.t = "int"

\* Python truthiness: None, "", 0, False and the empty dict are falsy.
Truthy(v) ==
    /\ DOMAIN v # {}
    /\ v # None
    /\ v # Str(<<>>)
    /\ v # PyInt(0)
    /\ v # PyBool(FALSE)

\* a or b
Or(a, b) == IF Truthy(a) THEN a ELSE b

\* d.get(k)
Get(d, k) == IF k \in DOMAIN d THEN d[k] ELSE None

\* d.get(k, default)
GetDefault(d, k, default) == IF k \in DOMAIN d THEN d[k] ELSE default

\* d.setdefault(k, default), as the dict it leaves behind
SetDefault(d, k, default) ==
    IF k \in DOMAIN d THEN d
    ELSE [x \in DOMAIN d \cup {k} |-> IF x = k THEN default ELSE d[x]]

\* The result of an expression that may raise.
Ok(v) == [exc |-> "none", val |-> v]
Raise(e) == [exc |-> e]

-----------------------------------------------------------------------------
(* Characters and strings.                                                 *)

Digit == {"0", "1", "2", "3", "4", "5", "6", "7", "8", "9"}
DigitSeq == <<"0", "1", "2", "3", "4", "5", "6", "7", "8", "9">>
Whitespace == {" ", "\t", "\n", "\r"}
UpperSeq == <<"A","B","C","D","E","F","G","H","I","J","K","L","M",
              "N","O","P","Q","R","S","T","U","V","W","X","Y","Z">>
LowerSeq == <<"a","b","c","d","e","f","g","h","i","j","k","l","m",
              "n","o","p","q","r","s","t","u","v","w","x","y","z">>
Upper == {UpperSeq[i] : i \in 1..26}
Lower == {LowerSeq[i] : i \in 1..26}

DigitVal(c) == CHOOSE n \in 0..9 : DigitSeq[n + 1] = c

\* The lower-case letter of each capital, and the capital of each lower-case
\* letter.
LowerOf == [c \in Upper |-> LowerSeq[CHOOSE i \in 1..26 : UpperSeq[i] = c]]
UpperOf == [c \in Lower |-> UpperSeq[CHOOSE i \in 1..26 : LowerSeq[i] = c]]

\* c.lower() and c.upper() of one character
ToLower(c) == IF c \in Upper THEN LowerOf[c] ELSE c
ToUpper(c) == IF c \in Lower THEN UpperOf[c] ELSE c

\* s.lower() and s.upper()
lower(s) == [i \in 1..Len(s) |-> ToLower(s[i])]
upper(s) == [i \in 1..Len(s) |-> ToUpper(s[i])]

RECURSIVE lstrip(_)
lstrip(s) ==
    IF s # <<>> /\ Head(s) \in Whitespace THEN lstrip(Tail(s)) ELSE s

RECURSIVE rstrip(_)
rstrip(s) ==
    IF s # <<>> /\ s[Len(s)] \in Whitespace
    THEN rstrip(SubSeq(s, 1, Len(s) - 1))
    ELSE s

\* s.strip()
strip(s) == rstrip(lstrip(s))

\* sub in s
Contains(s, sub) ==
    \E i \in 1..(Len(s) - Len(sub) + 1) : SubSeq(s, i, i + Len(sub) - 1) = sub

\* s.endswith(suf)
EndsWith(s, suf) ==
    Len(s) >= Len(suf) /\ SubSeq(s, Len(s) - Len(suf) + 1, Len(s)) = suf

\* The first index of character c in s, 0 when there is none.
IndexOf(s, c) ==
    IF \E i \in 1..Len(s) : s[i] = c
    THEN CHOOSE i \in 1..Len(s) : s[i] = c /\ \A j \in 1..(i - 1) : s[j] # c
    ELSE 0

\* sep.join(parts)
RECURSIVE Join(_, _)
Join(parts, sep) ==
    IF parts = <<>> THEN <<>>
    ELSE IF Len(parts) = 1 THEN parts[1]
    ELSE parts[1] \o sep \o Join(Tail(parts), sep)

\* s.replace("  ", " "): left to right, non-overlapping
RECURSIVE ReplaceDoubleSpace(_)
ReplaceDoubleSpace(s) ==
    IF Len(s) < 2 THEN s
    ELSE IF s[1] = " " /\ s[2] = " "
         THEN <<" ">> \o ReplaceDoubleSpace(SubSeq(s, 3, Len(s)))
         ELSE <<s[1]>> \o ReplaceDoubleSpace(Tail(s))

\* str(n) for n >= 0
RECURSIVE DecimalOf(_)
DecimalOf(n) ==
    IF n < 10 THEN <<DigitSeq[n + 1]>>
    ELSE DecimalOf(n \div 10) \o <<DigitSeq[(n % 10) + 1]>>

\* int(s) for a non-empty digit string s
RECURSIVE IntOf(_)
IntOf(s) ==
    IF s = <<>> THEN 0
    ELSE 10 * IntOf(SubSeq(s, 1, Len(s) - 1)) + DigitVal(s[Len(s)])

\* str(v) of a str or an int
PyStr(v) == IF IsInt(v) THEN DecimalOf(v.n) ELSE v.s

-----------------------------------------------------------------------------
(* Query classifier and normalizer.                                        *)

is_probable_apn(text) ==
    LET s == SelectSeq(text, LAMBDA c : c \notin Whitespace /\ c # "-")
    IN  /\ Len(s) >= 8
        /\ Len(s) <= 12
        /\ \A i \in 1..Len(s) : s[i] \in Digit

\* re.sub(r"\D", "", text)
BareDigits(text) == SelectSeq(text, LAMBDA c : c \in Digit)

normalize_apn(text) ==
    LET digits == BareDigits(text)
    IN  IF Len(digits) = 9
        THEN SubSeq(digits, 1, 3) \o <<"-">> \o SubSeq(digits, 4, 5)
                 \o <<"-">> \o SubSeq(digits, 6, 9)
        ELSE strip(text)

-----------------------------------------------------------------------------
(* Text the remote services can send.                                      *)

s_CA == <<"C","A">>
s_Unit == <<"U","n","i","t"," ">>
s_apn_dashed == <<"1","2","3","-","4","5","-","6","7","8","9">>
s_apn_bare == <<"1","2","3","4","5","6","7","8","9">>
s_apn_other == <<"9","8","7","6","5","4","3","2","1">>
s_apn_short == <<"1","2","3","4","5","6","7","8">>
s_apn_padded == <<" ","1","2","3","-","4","5","-","6","7","8","9"," ">>
s_address == <<"7","0"," ","W"," ","H","e","d","d","i","n","g"," ","S","t">>
s_Elm == <<" ","E","l","m"," ">>
s_Oak == <<"O","a","k">>
s_St == <<"S","t">>
s_Gilroy == <<"G","i","l","r","o","y">>
s_95020 == <<"9","5","0","2","0">>

\* All sequences over S of length at most n.
SeqsUpTo(S, n) == UNION {[1..k -> S] : k \in 0..n}

\* The empty dict.
EmptyDict == <<>>

\* Features the parcel layer can return: with a full attribute mapping, with
\* another parcel's id and a sparse mapping, with an undashed id, without the APN attribute, with a
\* null APN, with a numeric APN, without any attribute mapping, with a null
\* attribute mapping.
FeatFull ==
    [attributes |->
        [APN |-> Str(s_apn_dashed), SITUS_HOUSE_NUMBER |-> PyInt(70),
         SITUS_STREET_NAME |-> Str(s_Elm), SITUS_STREET_TYPE |-> Str(s_St),
         SITUS_CITY_NAME |-> Str(s_Gilroy), SITUS_ZIP_CODE |-> Str(s_95020)]]
FeatOther ==
    [attributes |-> [APN |-> Str(s_apn_other), SITUS_STREET_NAME |-> Str(s_Oak)]]
\* The parcel of the query, its id stored without dashes.
FeatBare ==
    [attributes |-> [APN |-> Str(s_apn_bare), SITUS_CITY_NAME |-> Str(s_Gilroy)]]
FeatNoApn == [attributes |-> [SITUS_CITY_NAME |-> Str(s_Gilroy)]]
FeatNullApn == [attributes |-> [APN |-> None, SITUS_STREET_NAME |-> Str(s_Oak)]]
FeatIntApn == [attributes |-> [APN |-> PyInt(987654321)]]
FeatNoAttrs == [geometry |-> None]
FeatNullAttrs == [attributes |-> None]

Features ==
    {FeatFull, FeatOther, FeatBare, FeatNoApn, FeatNullApn, FeatIntApn, FeatNoAttrs,
     FeatNullAttrs}

\* A transport failure: timeout, connection error or non-2xx status
\* (requests.RequestException).
TransportFailure == [ok |-> FALSE]

\* Responses of the parcel layer's query endpoint.
FeatureResponses ==
    {TransportFailure}
        \cup {[ok |-> TRUE, features |-> fs] : fs \in SeqsUpTo(Features, MaxFeats)}

\* Geocoder candidates.  A key the service left out is absent from the DOMAIN.
CandA ==
    [score |-> 95, attributes |-> [APN |-> Str(s_apn_dashed)],
     location |-> [x |-> PyInt(1), y |-> PyInt(2)],
     spatialReference |-> [wkid |-> PyInt(2227)]]
CandB == [score |-> 95, location |-> [x |-> PyInt(3), y |-> PyInt(4)]]
CandC ==
    [score |-> 80, attributes |-> [apn |-> Str(s_apn_bare)],
     location |-> [x |-> PyInt(5)]]
CandD ==
    [score |-> 69, attributes |-> [APN |-> Str(s_apn_other)],
     location |-> [x |-> PyInt(6), y |-> PyInt(7)]]
CandE ==
    [score |-> 70, attributes |-> [APN |-> PyInt(987654321)],
     location |-> [x |-> PyInt(0), y |-> PyInt(0)]]
CandF == [attributes |-> [APN |-> Str(s_apn_other)]]

Candidates == {CandA, CandB, CandC, CandD, CandE, CandF}

GeocodeResponses ==
    {TransportFailure}
        \cup {[ok |-> TRUE, candidates |-> cs] : cs \in SeqsUpTo(Candidates, MaxCands)}

-----------------------------------------------------------------------------
(* ArcGIS helpers: what each returns for the response it received.         *)

\* The geocoder's minimum score.
MIN_SCORE == 70
\* The spatial reference assumed when the candidate names none.
DEFAULT_WKID == 4326

\* Each helper is the outcome of its call for the response r it received:
\* Ok(value) when it returns, Raise(e) when an exception leaves it.  The
\* `except requests.RequestException` clause turns a transport failure into
\* the return value None.

\* The helper without its except clause: the transport failure leaves it.
arcgis_query_parcel_by_apn_uncaught(r) ==
    IF ~r.ok THEN Raise("RequestException")
    ELSE Ok(IF Len(r.features) > 0 THEN r.features[1] ELSE None)

arcgis_query_parcel_by_apn(r) ==
    IF ~r.ok THEN Ok(None)
    ELSE Ok(IF Len(r.features) > 0 THEN r.features[1] ELSE None)

arcgis_query_parcel_by_apn_like(r) ==
    IF ~r.ok THEN Ok(None)
    ELSE Ok(IF Len(r.features) > 0 THEN r.features[1] ELSE None)

arcgis_query_parcel_by_point(r) ==
    IF ~r.ok THEN Ok(None)
    ELSE Ok(IF Len(r.features) > 0 THEN r.features[1] ELSE None)

\* c.get("score", 0)
ScoreOf(c) == GetDefault(c, "score", 0)

\* [c for c in cands if c.get("score", 0) >= 70]
ViableCandidates(cands) == SelectSeq(cands, LAMBDA c : ScoreOf(c) >= MIN_SCORE)

\* One step of the stable descending sort: c goes after every element whose
\* score is at least its own.
\* The step of a sort that puts c before the elements of equal score.
InsertByScore_before_equal(sorted, c) ==
    LET k == Cardinality({i \in 1..Len(sorted) : ScoreOf(sorted[i]) > ScoreOf(c)})
    IN  SubSeq(sorted, 1, k) \o <<c>> \o SubSeq(sorted, k + 1, Len(sorted))

InsertByScore(sorted, c) ==
    LET k == Cardinality({i \in 1..Len(sorted) : ScoreOf(sorted[i]) >= ScoreOf(c)})
    IN  SubSeq(sorted, 1, k) \o <<c>> \o SubSeq(sorted, k + 1, Len(sorted))

\* cands.sort(key=score, reverse=True): stable, descending
RECURSIVE SortByScoreDesc(_)
SortByScoreDesc(cands) ==
    IF cands = <<>> THEN <<>>
    ELSE InsertByScore(SortByScoreDesc(SubSeq(cands, 1, Len(cands) - 1)),
                       cands[Len(cands)])

\* The patches that make the expected keys exist.
PatchCandidate(top) ==
    LET a == SetDefault(top, "location", EmptyDict)
        b == SetDefault(a, "attributes", EmptyDict)
    IN  SetDefault(b, "spatialReference", [wkid |-> PyInt(DEFAULT_WKID)])

arcgis_geocode_address(r) ==
    IF ~r.ok THEN Ok(None)
    ELSE LET cands == SortByScoreDesc(ViableCandidates(r.candidates))
         IN  Ok(IF cands = <<>> THEN None ELSE PatchCandidate(cands[1]))

\* tval(k) inside extract_situs_from_feature
tval(a, k) ==
    LET v == Get(a, k)
    IN  IF IsStr(v) THEN Str(strip(v.s))
        ELSE IF v # None THEN Str(strip(PyStr(v)))
        ELSE None

extract_situs_from_feature(f) ==
    IF ~Truthy(f) THEN None
    ELSE
    LET a == Or(Get(f, "attributes"), EmptyDict)
        part(k) == Or(tval(a, k), Str(<<>>)).s
        unit == IF Truthy(tval(a, "SITUS_UNIT_NUMBER"))
                THEN s_Unit \o tval(a, "SITUS_UNIT_NUMBER").s
                ELSE <<>>
        street_parts ==
            <<part("SITUS_HOUSE_NUMBER"), part("SITUS_HOUSE_NUMBER_SUFFIX"),
              part("SITUS_STREET_DIRECTION"), part("SITUS_STREET_NAME"),
              part("SITUS_STREET_TYPE"), unit>>
        street ==
            strip(ReplaceDoubleSpace(
                Join(SelectSeq(street_parts, LAMBDA s : s # <<>>), <<" ">>)))
    IN  [apn |-> tval(a, "APN"),
         street |-> Or(Str(street), None),
         city |-> tval(a, "SITUS_CITY_NAME"),
         state |-> Or(tval(a, "SITUS_STATE_CODE"), Str(s_CA)),
         zip |-> Or(tval(a, "SITUS_ZIP_CODE"), None)]

\* (geo.get("attributes") or {}).get("APN") or (...).get("apn")
ApnFromGeo(g) ==
    LET a == Or(Get(g, "attributes"), EmptyDict)
    IN  Or(Get(a, "APN"), Get(a, "apn"))

\* apn_norm: the normalized parcel id of the geocoder's candidate.
ApnNorm == normalize_apn(PyStr(ApnFromGeo(geo)))

\* The parcel id taken from the geocoder's candidate instead of the feature.
FeatureApnGet_from_geo(f) == Ok(Str(ApnNorm))

\* feature["attributes"].get("APN")
FeatureApnGet(f) ==
    IF "attributes" \notin DOMAIN f THEN Raise("KeyError")
    ELSE IF f.attributes = None THEN Raise("AttributeError")
    ELSE Ok(Get(f.attributes, "APN"))

\* feature["attributes"]["APN"]
FeatureApnIndex(f) ==
    IF "attributes" \notin DOMAIN f THEN Raise("KeyError")
    ELSE IF f.attributes = None THEN Raise("TypeError")
    ELSE IF "APN" \notin DOMAIN f.attributes THEN Raise("KeyError")
    ELSE Ok(f.attributes["APN"])

\* The page fetch inside search_property: the body, or None when the
\* transport failed.
fetch_assessor_html(r) == IF ~r.ok THEN Ok(None) ELSE Ok(r.text)

-----------------------------------------------------------------------------
(* Regular expressions, as far as the label patterns use them.  A pattern  *)
(* is a tree; Ends(r, s, i) is the set of positions at which a match of r  *)
(* that starts at position i of s can end.  Patterns are matched with      *)
(* re.I: a literal is kept in lower case and the subject is lower-cased    *)
(* before the match.                                                       *)

Lit(s) == [k |-> "lit", s |-> lower(s)]
Opt(r) == [k |-> "opt", r |-> r]
Alt(rs) == [k |-> "alt", rs |-> rs]
Cat(rs) == [k |-> "cat", rs |-> rs]
\* \s*
WS0 == [k |-> "ws0"]
\* \s+
WS1 == [k |-> "ws1"]
\* \b
WB == [k |-> "wb"]

\* \w
WordChar == Upper \cup Lower \cup Digit \cup {"_"}

IsWordAt(s, i) == i >= 1 /\ i <= Len(s) /\ s[i] \in WordChar

\* The number of whitespace characters of s from position i on.
RECURSIVE BlanksFrom(_, _)
BlanksFrom(s, i) ==
    IF i > Len(s) \/ s[i] \notin Whitespace THEN 0 ELSE 1 + BlanksFrom(s, i + 1)

RECURSIVE Ends(_, _, _)
RECURSIVE EndsCat(_, _, _)

Ends(r, s, i) ==
    CASE r.k = "lit" ->
            IF /\ i + Len(r.s) - 1 <= Len(s)
               /\ s[i] = r.s[1]
               /\ SubSeq(s, i, i + Len(r.s) - 1) = r.s
            THEN {i + Len(r.s)}
            ELSE {}
      [] r.k = "ws0" -> i..(i + BlanksFrom(s, i))
      [] r.k = "ws1" -> (i + 1)..(i + BlanksFrom(s, i))
      [] r.k = "wb" ->
            IF IsWordAt(s, i - 1) # IsWordAt(s, i) THEN {i} ELSE {}
      [] r.k = "opt" -> {i} \cup Ends(r.r, s, i)
      [] r.k = "alt" -> UNION {Ends(r.rs[n], s, i) : n \in 1..Len(r.rs)}
      [] r.k = "cat" -> EndsCat(r.rs, s, {i})

EndsCat(rs, s, starts) ==
    IF rs = <<>> \/ starts = {} THEN starts
    ELSE EndsCat(Tail(rs), s, UNION {Ends(Head(rs), s, i) : i \in starts})

\* re.search(pat, s, re.I) is not None
Search(pat, s) ==
    \E ls \in {lower(s)} : \E i \in 1..(Len(ls) + 1) : Ends(pat, ls, i) # {}

_LABEL_ALIASES ==
    [
     \* [r"\bAPN\b", r"Assessor'?s?\s+Parcel\s+Number"]
     apn |-> <<
        Cat(<<WB, Lit(<<"A","P","N">>), WB>>),
        Cat(<<Lit(<<"A","s","s","e","s","s","o","r">>), Opt(Lit(<<"'">>)),
        Opt(Lit(<<"s">>)), WS1, Lit(<<"P","a","r","c","e","l">>), WS1,
        Lit(<<"N","u","m","b","e","r">>)>>)
     >>,
     \* [r"Situs\s+Address", r"Property\s+Address"]
     situs_address |-> <<
        Cat(<<Lit(<<"S","i","t","u","s">>), WS1,
        Lit(<<"A","d","d","r","e","s","s">>)>>),
        Cat(<<Lit(<<"P","r","o","p","e","r","t","y">>), WS1,
        Lit(<<"A","d","d","r","e","s","s">>)>>)
     >>,
     \* [r"Mailing\s+Address"]
     mailing_address |-> <<
        Cat(<<Lit(<<"M","a","i","l","i","n","g">>), WS1,
        Lit(<<"A","d","d","r","e","s","s">>)>>)
     >>,
     \* [r"Owner\s*Name", r"Assessee\s*Name"]
     owner_name |-> <<
        Cat(<<Lit(<<"O","w","n","e","r">>), WS0, Lit(<<"N","a","m","e">>)>>),
        Cat(<<Lit(<<"A","s","s","e","s","s","e","e">>), WS0,
        Lit(<<"N","a","m","e">>)>>)
     >>,
     \* [r"Homeowner'?s?\s+Exemption"]
     homeowner_exemption |-> <<
        Cat(<<Lit(<<"H","o","m","e","o","w","n","e","r">>), Opt(Lit(<<"'">>)),
        Opt(Lit(<<"s">>)), WS1,
        Lit(<<"E","x","e","m","p","t","i","o","n">>)>>)
     >>,
     \* [r"Use\s*Code"]
     use_code |-> <<
        Cat(<<Lit(<<"U","s","e">>), WS0, Lit(<<"C","o","d","e">>)>>)
     >>,
     \* [r"Year\s*Built"]
     year_built |-> <<
        Cat(<<Lit(<<"Y","e","a","r">>), WS0, Lit(<<"B","u","i","l","t">>)>>)
     >>,
     \* [r"Living\s*Area", r"Building\s*Area", r"Sq\s*Ft"]
     living_sqft |-> <<
        Cat(<<Lit(<<"L","i","v","i","n","g">>), WS0,
        Lit(<<"A","r","e","a">>)>>),
        Cat(<<Lit(<<"B","u","i","l","d","i","n","g">>), WS0,
        Lit(<<"A","r","e","a">>)>>),
        Cat(<<Lit(<<"S","q">>), WS0, Lit(<<"F","t">>)>>)
     >>,
     \* [r"Lot\s*(Area|Size|Square\s*Feet)"]
     lot_sqft |-> <<
        Cat(<<Lit(<<"L","o","t">>), WS0, Alt(<<Lit(<<"A","r","e","a">>),
        Lit(<<"S","i","z","e">>), Cat(<<Lit(<<"S","q","u","a","r","e">>), WS0,
        Lit(<<"F","e","e","t">>)>>)>>)>>)
     >>,
     \* [r"Document\s*(No\.?|Number)|Doc\s*#"]
     doc_number |-> <<
        Alt(<<Cat(<<Lit(<<"D","o","c","u","m","e","n","t">>), WS0,
        Alt(<<Cat(<<Lit(<<"N","o">>), Opt(Lit(<<".">>))>>),
        Lit(<<"N","u","m","b","e","r">>)>>)>>), Cat(<<Lit(<<"D","o","c">>),
        WS0, Lit(<<"#">>)>>)>>)
     >>,
     \* [r"(Recording|Transfer)\s*Date"]
     recording_date |-> <<
        Cat(<<Alt(<<Lit(<<"R","e","c","o","r","d","i","n","g">>),
        Lit(<<"T","r","a","n","s","f","e","r">>)>>), WS0,
        Lit(<<"D","a","t","e">>)>>)
     >>,
     \* [r"(Sales|Indicated)\s*(Price|Net\s*Value)"]
     sales_price |-> <<
        Cat(<<Alt(<<Lit(<<"S","a","l","e","s">>),
        Lit(<<"I","n","d","i","c","a","t","e","d">>)>>), WS0,
        Alt(<<Lit(<<"P","r","i","c","e">>), Cat(<<Lit(<<"N","e","t">>), WS0,
        Lit(<<"V","a","l","u","e">>)>>)>>)>>)
     >>,
     \* [r"Land\s*Value"]
     assessed_land |-> <<
        Cat(<<Lit(<<"L","a","n","d">>), WS0, Lit(<<"V","a","l","u","e">>)>>)
     >>,
     \* [r"(Improvement|Improvements)\s*Value"]
     assessed_impr |-> <<
        Cat(<<Alt(<<Lit(<<"I","m","p","r","o","v","e","m","e","n","t">>),
        Lit(<<"I","m","p","r","o","v","e","m","e","n","t","s">>)>>), WS0,
        Lit(<<"V","a","l","u","e">>)>>)
     >>,
     \* [r"Total\s*(Assessed\s*)?Value"]
     assessed_total |-> <<
        Cat(<<Lit(<<"T","o","t","a","l">>), WS0,
        Opt(Cat(<<Lit(<<"A","s","s","e","s","s","e","d">>), WS0>>)),
        Lit(<<"V","a","l","u","e">>)>>)
     >>,
     \* [r"(Roll|Tax|Assessment)\s*Year"]
     assessed_year |-> <<
        Cat(<<Alt(<<Lit(<<"R","o","l","l">>), Lit(<<"T","a","x">>),
        Lit(<<"A","s","s","e","s","s","m","e","n","t">>)>>), WS0,
        Lit(<<"Y","e","a","r">>)>>)
     >>
    ]

-----------------------------------------------------------------------------
(* The record page.  A page is its table rows; a row is its cells (th or   *)
(* td); a cell is its text nodes, in document order (a <br> separates two  *)
(* text nodes of one cell).                                                *)

Html(rows) == [t |-> "html", rows |-> rows]

\* cell.get_text(" ", strip=True): every text node stripped, the non-empty
\* ones joined by one space.
GetText(cell) ==
    Join(SelectSeq([n \in 1..Len(cell) |-> strip(cell[n])], LAMBDA x : x # <<>>),
         <<" ">>)

\* " ".join(c.get_text(" ", strip=True) for c in cells[1:])
RestText(cells) == Join([n \in 1..(Len(cells) - 1) |-> GetText(cells[n + 1])], <<" ">>)

\* kv.setdefault(k, v) on the list of (label, value) pairs, in insertion order
KvSetDefault(kv, k, v) ==
    IF \E n \in 1..Len(kv) : kv[n][1] = k THEN kv ELSE Append(kv, <<k, v>>)

\* The label/value pairs harvested from the first n rows.
RECURSIVE Harvest(_, _)
Harvest(rows, n) ==
    IF n = 0 THEN <<>>
    ELSE LET kv == Harvest(rows, n - 1)
             cells == rows[n]
             k == IF Len(cells) >= 1 THEN GetText(cells[1]) ELSE <<>>
             v == IF Len(cells) = 2 THEN GetText(cells[2]) ELSE RestText(cells)
         IN  IF Len(cells) >= 2 /\ k # <<>> /\ v # <<>>
             THEN KvSetDefault(kv, k, v)
             ELSE kv

\* The text nodes of the page in document order, each with its row and cell.
RECURSIVE CellNodes(_, _, _, _)
CellNodes(cell, r, c, n) ==
    IF n > Len(cell) THEN <<>>
    ELSE <<[row |-> r, col |-> c, text |-> cell[n]]>> \o CellNodes(cell, r, c, n + 1)

RECURSIVE RowNodes(_, _, _)
RowNodes(cells, r, c) ==
    IF c > Len(cells) THEN <<>>
    ELSE CellNodes(cells[c], r, c, 1) \o RowNodes(cells, r, c + 1)

RECURSIVE TextNodes(_, _)
TextNodes(rows, r) ==
    IF r > Len(rows) THEN <<>>
    ELSE RowNodes(rows[r], r, 1) \o TextNodes(rows, r + 1)

\* The value the pattern finds among the harvested labels: that of the first
\* label, in insertion order, the pattern matches.
KvLookup(kv, pat) ==
    LET hits == {n \in 1..Len(kv) : Search(pat, kv[n][1])}
    IN  IF hits = {} THEN None
        ELSE Str(kv[CHOOSE n \in hits : \A m \in hits : n <= m][2])

\* The loose search in the whole document: the first text node the pattern
\* matches, then the text of the next sibling of that node's parent.
DocLookup(rows, pat) ==
    LET nodes == TextNodes(rows, 1)
        hits == {n \in 1..Len(nodes) : Search(pat, nodes[n].text)}
    IN  IF hits = {} THEN None
        ELSE LET lab == nodes[CHOOSE n \in hits : \A m \in hits : n <= m]
                 cells == rows[lab.row]
             IN  IF lab.col + 1 > Len(cells) THEN None
                 ELSE LET txt == GetText(cells[lab.col + 1])
                      IN  IF txt # <<>> THEN Str(txt) ELSE None

\* find_first(patterns), from pattern number n on
RECURSIVE FindFrom(_, _, _, _)
FindFrom(rows, kv, patterns, n) ==
    IF n > Len(patterns) THEN None
    ELSE LET inKv == KvLookup(kv, patterns[n])
         IN  IF inKv # None THEN inKv
             ELSE LET inDoc == DocLookup(rows, patterns[n])
                  IN  IF inDoc # None THEN inDoc
                      ELSE FindFrom(rows, kv, patterns, n + 1)

\* The lookup that tries every pattern against the harvested labels before
\* any document-wide search.
find_first_mapping_first(rows, kv, patterns) ==
    LET inKv == {n \in 1..Len(patterns) : KvLookup(kv, patterns[n]) # None}
        inDoc == {n \in 1..Len(patterns) : DocLookup(rows, patterns[n]) # None}
    IN  IF inKv # {}
        THEN KvLookup(kv, patterns[CHOOSE n \in inKv : \A m \in inKv : n <= m])
        ELSE IF inDoc # {}
        THEN DocLookup(rows, patterns[CHOOSE n \in inDoc : \A m \in inDoc : n <= m])
        ELSE None

find_first(rows, kv, patterns) == FindFrom(rows, kv, patterns, 1)

-----------------------------------------------------------------------------
(* Field normalizers.                                                      *)

s_TRUST == <<"T","R","U","S","T">>
s_TR == <<" ","T","R">>
s_LLC == <<"L","L","C">>
s_INC == <<" ","I","N","C">>
s_CORP == <<" ","C","O","R","P">>
s_CORPORATION == <<" ","C","O","R","P","O","R","A","T","I","O","N">>
s_CO == <<" ","C","O",".">>
s_COMPANY == <<" ","C","O","M","P","A","N","Y">>
s_LP == <<" ","L","P">>
s_L_P == <<" ","L",".","P",".">>
s_LTD == <<" ","L","T","D">>
s_LIMITED == <<" ","L","I","M","I","T","E","D">>
s_PARTNERSHIP == <<" ","P","A","R","T","N","E","R","S","H","I","P">>
s_trust == <<"t","r","u","s","t">>
s_llc == <<"l","l","c">>
s_corporation == <<"c","o","r","p","o","r","a","t","i","o","n">>
s_partnership == <<"p","a","r","t","n","e","r","s","h","i","p">>
s_individual == <<"i","n","d","i","v","i","d","u","a","l">>

RECORDER_SEARCH_LANDING ==
    <<"h","t","t","p","s",":","/","/","c","l","e","r","k","r","e","c","o","r",
      "d","e","r",".","s","a","n","t","a","c","l","a","r","a","c","o","u","n",
      "t","y",".","g","o","v","/","o","f","f","i","c","i","a","l","-","r","e",
      "c","o","r","d","s","/","r","e","c","o","r","d","s","-","s","e","a","r",
      "c","h">>

classify_owner_type(name) ==
    IF ~Truthy(name) THEN None
    ELSE LET n == upper(name.s)
             any(ks) == \E i \in 1..Len(ks) : Contains(n, ks[i])
         IN  IF Contains(n, s_TRUST) \/ EndsWith(n, s_TR) THEN Str(s_trust)
             ELSE IF Contains(n, s_LLC) THEN Str(s_llc)
             ELSE IF any(<<s_INC, s_CORP, s_CORPORATION, s_CO, s_COMPANY>>)
                  THEN Str(s_corporation)
             ELSE IF any(<<s_LP, s_L_P, s_LTD, s_LIMITED, s_PARTNERSHIP>>)
                  THEN Str(s_partnership)
             ELSE Str(s_individual)

\* The longest run of characters of `class` that starts at position i of s.
RECURSIVE RunFrom(_, _, _)
RunFrom(s, i, class) ==
    IF i > Len(s) \/ s[i] \notin class THEN <<>>
    ELSE <<s[i]>> \o RunFrom(s, i + 1, class)

\* normalize_money(val): m = re.search(r"\$?\s*([\d,]+)", val) puts in group 1
\* the run of digits and commas that starts at the first digit or comma of
\* val; int() of that run without its commas raises ValueError when nothing is
\* left.
normalize_money(val) ==
    IF ~Truthy(val) THEN Ok(None)
    ELSE LET s == val.s
             class == Digit \cup {","}
             starts == {i \in 1..Len(s) : s[i] \in class}
         IN  IF starts = {} THEN Ok(None)
             ELSE LET first == CHOOSE i \in starts : \A j \in starts : i <= j
                      group == RunFrom(s, first, class)
                      digits == SelectSeq(group, LAMBDA c : c # ",")
                  IN  IF digits = <<>> THEN Raise("ValueError")
                      ELSE Ok(PyInt(IntOf(digits)))

\* re.search(r"(\d{4})", s): the first four consecutive digits
FirstFourDigits(s) ==
    LET starts == {i \in 1..(Len(s) - 3) : \A n \in 0..3 : s[i + n] \in Digit}
    IN  IF starts = {} THEN None
        ELSE LET first == CHOOSE i \in starts : \A j \in starts : i <= j
             IN  PyInt(IntOf(SubSeq(s, first, first + 3)))

safe_int(v) == IF ~Truthy(v) THEN None ELSE FirstFourDigits(v.s)

\* split_city_state_zip(full):
\* re.search(r"^\s*([^,]+)\s*,\s*([A-Z]{2})\s+(\d{5}(?:-\d{4})?)", full).
\* Group 1 ends at the first comma and is stripped by the caller; after the
\* comma come optional blanks, two capitals, at least one blank, five digits
\* and, when present, a dash and four digits.
split_city_state_zip(full) ==
    LET none3 == [city |-> None, state |-> None, zip |-> None]
    IN
    IF ~Truthy(full) THEN none3
    ELSE
    LET s == full.s
        comma == IndexOf(s, ",")
    IN  IF comma < 2 THEN none3
        ELSE
        LET afterWs == comma + 1 + Len(RunFrom(s, comma + 1, Whitespace))
            st == SubSeq(s, afterWs, afterWs + 1)
            gap == Len(RunFrom(s, afterWs + 2, Whitespace))
            z == afterWs + 2 + gap
            zip5 == RunFrom(s, z, Digit)
            plus4 == IF Len(s) >= z + 5 /\ s[z + 5] = "-"
                     THEN RunFrom(s, z + 6, Digit)
                     ELSE <<>>
        IN  IF /\ afterWs + 1 <= Len(s)
               /\ st[1] \in Upper /\ st[2] \in Upper
               /\ gap >= 1
               /\ Len(zip5) >= 5
            THEN [city |-> Str(strip(SubSeq(s, 1, comma - 1))),
                  state |-> Str(st),
                  zip |-> Str(SubSeq(zip5, 1, 5)
                              \o (IF Len(plus4) >= 4
                                  THEN <<"-">> \o SubSeq(plus4, 1, 4)
                                  ELSE <<>>))]
            ELSE none3

\* [ln.strip() for ln in re.split(r"[\n\r]+", block) if ln.strip()]
RECURSIVE SplitLines(_, _)
SplitLines(s, cur) ==
    IF s = <<>>
    THEN IF strip(cur) # <<>> THEN <<strip(cur)>> ELSE <<>>
    ELSE IF Head(s) \in {"\n", "\r"}
         THEN (IF strip(cur) # <<>> THEN <<strip(cur)>> ELSE <<>>)
                  \o SplitLines(Tail(s), <<>>)
         ELSE SplitLines(Tail(s), Append(cur, Head(s)))

\* The mailing address fields of the block find_first returned.
MailingOf(block) ==
    LET lines == IF Truthy(block) THEN SplitLines(block.s, <<>>) ELSE <<>>
    IN  IF lines = <<>>
        THEN [street |-> None, city |-> None, state |-> None, zip |-> None]
        ELSE LET csz == split_city_state_zip(Str(lines[Len(lines)]))
             IN  [street |-> IF Len(lines) >= 2 THEN Str(lines[Len(lines) - 1])
                             ELSE None,
                  city |-> csz.city, state |-> csz.state, zip |-> csz.zip]

\* The situs address fields of the text find_first returned.
SitusOf(situs_full) ==
    LET parts == IF Truthy(situs_full) THEN SplitLines(situs_full.s, <<>>) ELSE <<>>
        null == [street |-> None, city |-> None, state |-> None, zip |-> None]
    IN  IF Len(parts) = 1
        THEN IF IndexOf(parts[1], ",") > 0
             THEN LET comma == IndexOf(parts[1], ",")
                      street == SubSeq(parts[1], 1, comma - 1)
                      rest == SubSeq(parts[1], comma + 1, Len(parts[1]))
                      csz == split_city_state_zip(Str(strip(rest)))
                  IN  [street |-> Str(strip(street)), city |-> csz.city,
                       state |-> Or(csz.state, Str(s_CA)), zip |-> csz.zip]
             ELSE [null EXCEPT !.street = Str(parts[1])]
        ELSE IF Len(parts) >= 2
        THEN LET csz == split_city_state_zip(Str(parts[2]))
             IN  [street |-> Str(parts[1]), city |-> csz.city,
                  state |-> Or(csz.state, Str(s_CA)), zip |-> csz.zip]
        ELSE null

\* (yes|y|true) without the word boundaries
AffirmativePattern_unbounded ==
    Alt(<<Lit(<<"y","e","s">>), Lit(<<"y">>), Lit(<<"t","r","u","e">>)>>)

\* \b(yes|y|true)\b
AffirmativePattern ==
    Cat(<<WB, Alt(<<Lit(<<"y","e","s">>), Lit(<<"y">>), Lit(<<"t","r","u","e">>)>>),
          WB>>)

\* The homeowner_exemption field for the text find_first returned.
ExemptionOf(hx_text) ==
    IF Truthy(hx_text) THEN PyBool(Search(AffirmativePattern, hx_text.s)) ELSE None

\* Every field's text as find_first returns it.
FoundFields(rows, kv) ==
    [f \in DOMAIN _LABEL_ALIASES |-> find_first(rows, kv, _LABEL_ALIASES[f])]

\* The numeric fields; each may raise.
MoneyFields(found) ==
    [living_sqft |-> normalize_money(found.living_sqft),
     lot_sqft |-> normalize_money(found.lot_sqft),
     price |-> normalize_money(found.sales_price),
     land |-> normalize_money(found.assessed_land),
     impr |-> normalize_money(found.assessed_impr),
     total |-> normalize_money(found.assessed_total)]

\* The dict parse_property_page returns, or the exception it raises.
ParsedRecord(found, money) ==
    IF \E k \in DOMAIN money : money[k].exc # "none"
    THEN Raise("ValueError")
    ELSE Ok(
      [apn |-> found.apn,
       situs_address |-> SitusOf(found.situs_address),
       owner_names |->
           IF Truthy(found.owner_name) THEN <<found.owner_name>> ELSE <<>>,
       owner_mailing_address |-> MailingOf(found.mailing_address),
       owner_type |-> classify_owner_type(found.owner_name),
       last_transfer |->
           [recording_date |-> found.recording_date,
            doc_number |-> found.doc_number,
            price |-> money.price.val],
       assessed_values |->
           [land |-> money.land.val, improvements |-> money.impr.val,
            total |-> money.total.val,
            year |-> safe_int(found.assessed_year)],
       homeowner_exemption |-> ExemptionOf(found.homeowner_exemption),
       property_details |->
           [use_code |-> found.use_code,
            year_built |-> safe_int(found.year_built),
            living_sqft |-> money.living_sqft.val,
            lot_sqft |-> money.lot_sqft.val],
       recorder_doc_url |->
           IF Truthy(found.doc_number) THEN Str(RECORDER_SEARCH_LANDING)
           ELSE None])

\* The one element of a singleton set.
TheOnly(S) == CHOOSE x \in S : TRUE

parse_property_page(html) ==
    TheOnly({
        TheOnly({
            TheOnly({ParsedRecord(found, money) : money \in {MoneyFields(found)}})
            : found \in {FoundFields(html.rows, kv)}})
        : kv \in {Harvest(html.rows, Len(html.rows))}})

-----------------------------------------------------------------------------
(* Pages the assessor site can send.                                       *)

DEMO_HTML ==
    Html(<<
      \* <tr><th>APN</th><td>235-12-003</td></tr>
      << << <<"A","P","N">> >>,
         << <<"2","3","5","-","1","2","-","0","0","3">> >> >>,
      \* <tr><th>Situs Address</th><td>123 Sample St<br>San Jose, CA 95123</td></tr>
      << << <<"S","i","t","u","s"," ","A","d","d","r","e","s","s">> >>,
         << <<"1","2","3"," ","S","a","m","p","l","e"," ","S","t">>,
            <<"S","a","n"," ","J","o","s","e",","," ","C","A"," ","9","5","1","2","3">> >> >>,
      \* <tr><th>Mailing Address</th><td>JANE DOE TRUST<br>PO BOX 1234<br>San Jose, CA 95123</td></tr>
      << << <<"M","a","i","l","i","n","g"," ","A","d","d","r","e","s","s">> >>,
         << <<"J","A","N","E"," ","D","O","E"," ","T","R","U","S","T">>,
            <<"P","O"," ","B","O","X"," ","1","2","3","4">>,
            <<"S","a","n"," ","J","o","s","e",","," ","C","A"," ","9","5","1","2","3">> >> >>,
      \* <tr><th>Homeowner's Exemption</th><td>Yes</td></tr>
      << << <<"H","o","m","e","o","w","n","e","r","'","s"," ","E","x","e","m","p","t","i","o","n">> >>,
         << <<"Y","e","s">> >> >>,
      \* <tr><th>Use Code</th><td>SFR</td></tr>
      << << <<"U","s","e"," ","C","o","d","e">> >>,
         << <<"S","F","R">> >> >>,
      \* <tr><th>Year Built</th><td>1978</td></tr>
      << << <<"Y","e","a","r"," ","B","u","i","l","t">> >>,
         << <<"1","9","7","8">> >> >>,
      \* <tr><th>Living Area</th><td>1,234</td></tr>
      << << <<"L","i","v","i","n","g"," ","A","r","e","a">> >>,
         << <<"1",",","2","3","4">> >> >>,
      \* <tr><th>Lot Area</th><td>6,098</td></tr>
      << << <<"L","o","t"," ","A","r","e","a">> >>,
         << <<"6",",","0","9","8">> >> >>,
      \* <tr><th>Document Number</th><td>12345678</td></tr>
      << << <<"D","o","c","u","m","e","n","t"," ","N","u","m","b","e","r">> >>,
         << <<"1","2","3","4","5","6","7","8">> >> >>,
      \* <tr><th>Recording Date</th><td>06/15/2021</td></tr>
      << << <<"R","e","c","o","r","d","i","n","g"," ","D","a","t","e">> >>,
         << <<"0","6","/","1","5","/","2","0","2","1">> >> >>,
      \* <tr><th>Sales Price</th><td>$1,250,000</td></tr>
      << << <<"S","a","l","e","s"," ","P","r","i","c","e">> >>,
         << <<"$","1",",","2","5","0",",","0","0","0">> >> >>,
      \* <tr><th>Roll Year</th><td>2024</td></tr>
      << << <<"R","o","l","l"," ","Y","e","a","r">> >>,
         << <<"2","0","2","4">> >> >>,
      \* <tr><th>Land Value</th><td>$900,000</td></tr>
      << << <<"L","a","n","d"," ","V","a","l","u","e">> >>,
         << <<"$","9","0","0",",","0","0","0">> >> >>,
      \* <tr><th>Improvements Value</th><td>$450,000</td></tr>
      << << <<"I","m","p","r","o","v","e","m","e","n","t","s"," ","V","a","l","u","e">> >>,
         << <<"$","4","5","0",",","0","0","0">> >> >>,
      \* <tr><th>Total Assessed Value</th><td>$1,350,000</td></tr>
      << << <<"T","o","t","a","l"," ","A","s","s","e","s","s","e","d"," ","V","a","l","u","e">> >>,
         << <<"$","1",",","3","5","0",",","0","0","0">> >> >>
    >>)

PageStreetOnly ==
    Html(<<
      \* <tr><th>Situs Address</th><td>5 Oak St</td></tr>
      << << <<"S","i","t","u","s"," ","A","d","d","r","e","s","s">> >>,
         << <<"5"," ","O","a","k"," ","S","t">> >> >>,
      \* <tr><th>Use Code</th><td>SFR</td></tr>
      << << <<"U","s","e"," ","C","o","d","e">> >>,
         << <<"S","F","R">> >> >>,
      \* <tr><th>Homeowner's Exemption</th><td>TRUE</td></tr>
      << << <<"H","o","m","e","o","w","n","e","r","'","s"," ","E","x","e","m","p","t","i","o","n">> >>,
         << <<"T","R","U","E">> >> >>
    >>)

PageFullSitus ==
    Html(<<
      \* <tr><th>Property Address</th><td>5 Oak St, Gilroy, CA 95020</td></tr>
      << << <<"P","r","o","p","e","r","t","y"," ","A","d","d","r","e","s","s">> >>,
         << <<"5"," ","O","a","k"," ","S","t",","," ","G","i","l","r","o","y",","," ","C","A"," ","9","5","0","2","0">> >> >>,
      \* <tr><th>Owner Name</th><td>ACME LLC</td></tr>
      << << <<"O","w","n","e","r"," ","N","a","m","e">> >>,
         << <<"A","C","M","E"," ","L","L","C">> >> >>,
      \* <tr><th>Doc #</th><td>77</td></tr>
      << << <<"D","o","c"," ","#">> >>,
         << <<"7","7">> >> >>,
      \* <tr><th>Homeowners Exemption</th><td>Not yet</td></tr>
      << << <<"H","o","m","e","o","w","n","e","r","s"," ","E","x","e","m","p","t","i","o","n">> >>,
         << <<"N","o","t"," ","y","e","t">> >> >>
    >>)

PageNoStreet ==
    Html(<<
      \* <tr><th>Situs Address</th><td>, Gilroy, CA 95020</td></tr>
      << << <<"S","i","t","u","s"," ","A","d","d","r","e","s","s">> >>,
         << <<","," ","G","i","l","r","o","y",","," ","C","A"," ","9","5","0","2","0">> >> >>,
      \* <tr><th>Land Value</th><td>$1,000</td></tr>
      << << <<"L","a","n","d"," ","V","a","l","u","e">> >>,
         << <<"$","1",",","0","0","0">> >> >>,
      \* <tr><th>Homeowner Exemption</th><td>y (2024)</td></tr>
      << << <<"H","o","m","e","o","w","n","e","r"," ","E","x","e","m","p","t","i","o","n">> >>,
         << <<"y"," ","(","2","0","2","4",")">> >> >>
    >>)

PageBadMoney ==
    Html(<<
      \* <tr><th>Situs Address</th><td>5 Oak St, Gilroy, CA 95020</td></tr>
      << << <<"S","i","t","u","s"," ","A","d","d","r","e","s","s">> >>,
         << <<"5"," ","O","a","k"," ","S","t",","," ","G","i","l","r","o","y",","," ","C","A"," ","9","5","0","2","0">> >> >>,
      \* <tr><th>Land Value</th><td>n/a, tbd</td></tr>
      << << <<"L","a","n","d"," ","V","a","l","u","e">> >>,
         << <<"n","/","a",","," ","t","b","d">> >> >>
    >>)

PageTwoLine ==
    Html(<<
      \* <tr><th>Situs Address</th><td>5 Oak St\nGilroy, CA 95020-1234</td></tr>
      << << <<"S","i","t","u","s"," ","A","d","d","r","e","s","s">> >>,
         << <<"5"," ","O","a","k"," ","S","t","\n","G","i","l","r","o","y",","," ","C","A"," ","9","5","0","2","0","-","1","2","3","4">> >> >>,
      \* <tr><th>Homeowner Exemption</th><td>No</td></tr>
      << << <<"H","o","m","e","o","w","n","e","r"," ","E","x","e","m","p","t","i","o","n">> >>,
         << <<"N","o">> >> >>
    >>)

\* A page that names a label inside a value cell, before the row that carries
\* the field under its second alias.
PageLookup ==
    Html(<<
      \* <tr><th>Lookup</th><td>by APN</td><td>or address</td></tr>
      << << <<"L","o","o","k","u","p">> >>,
         << <<"b","y"," ","A","P","N">> >>,
         << <<"o","r"," ","a","d","d","r","e","s","s">> >> >>,
      \* <tr><th>Assessor's Parcel Number</th><td>235-12-003</td></tr>
      << << <<"A","s","s","e","s","s","o","r","'","s"," ","P","a","r","c","e","l"," ","N","u","m","b","e","r">> >>,
         << <<"2","3","5","-","1","2","-","0","0","3">> >> >>
    >>)

\* A 2xx response with an empty body.
EmptyBody == Str(<<>>)

Pages ==
    {EmptyBody, DEMO_HTML, PageStreetOnly, PageFullSitus, PageTwoLine,
     PageNoStreet, PageBadMoney, PageLookup}

\* Responses of the assessor's APN-redirect endpoint.
PageResponses == {TransportFailure} \cup {[ok |-> TRUE, text |-> p] : p \in Pages}

-----------------------------------------------------------------------------
(* Command lines.                                                          *)

CommandLines ==
    {[demo |-> FALSE, apn |-> Str(q), address |-> None] :
        q \in {s_apn_bare, s_apn_padded, s_apn_short}}
    \cup {[demo |-> FALSE, apn |-> None, address |-> Str(s_address)]}
    \cup {[demo |-> TRUE, apn |-> Str(s_apn_bare), address |-> None]}

-----------------------------------------------------------------------------------------------------------------------------------------------------
(* main and search_property, one action per step.                          *)

NoException == [type |-> "none", from |-> "none"]

NullAddress == [street |-> None, city |-> None, state |-> None, zip |-> None]

RawSearchResult(apn, s, f, html) ==
    [apn |-> apn, situs |-> s, parcel_feature |-> f, assessor_html |-> html]

Init ==
    /\ pc = "main"
    /\ args \in CommandLines
    /\ query = None
    /\ net = None
    /\ calls = <<>>
    /\ geo = None
    /\ feature = None
    /\ resolved_apn = None
    /\ situs = None
    /\ raw = None
    /\ parsed = None
    /\ result = None
    /\ output = <<>>
    /\ exit_code = -1
    /\ exc = NoException

\* An exception nobody catches ends the process with status 1.
Crash(type, from) ==
    /\ pc' = "exit"
    /\ exit_code' = 1
    /\ exc' = [type |-> type, from |-> from]

\* How a remote call ended: "fail" (transport failure), "none" (nothing
\* usable in the response) or "hit".
Outcome(r, res) ==
    IF ~r.ok THEN "fail" ELSE IF Truthy(res.val) THEN "hit" ELSE "none"

\* The remote call without rate_limit() in front of it.
Called_without_delay(op, arg, out) ==
    calls' = Append(calls, [op |-> op, arg |-> arg, out |-> out])

\* rate_limit() and then the remote call `op` with argument `arg`.
Called(op, arg, out) ==
    calls' = calls \o <<[op |-> "sleep", arg |-> None, out |-> "-"],
                        [op |-> op, arg |-> arg, out |-> out]>>

\* save_to_json(data, args.output)
Saved(data) == output' = Append(output, data)

\* main in --demo mode: parse the embedded page and write it.
Demo ==
    /\ pc = "main"
    /\ args.demo
    /\ \E p \in {parse_property_page(DEMO_HTML)} :
           IF p.exc # "none"
           THEN Crash(p.exc, "parse_property_page") /\ UNCHANGED <<parsed, output>>
           ELSE /\ parsed' = IF ~Truthy(p.val.apn) /\ Truthy(args.apn)
                             THEN [p.val EXCEPT !.apn = Str(normalize_apn(args.apn.s))]
                             ELSE p.val
                /\ Saved(parsed')
                /\ pc' = "exit"
                /\ exit_code' = 0
                /\ UNCHANGED exc
    /\ UNCHANGED <<args, query, net, calls, geo, feature, resolved_apn, situs,
                   raw, result>>

\* The identifier of the APN path, with the normalization left out.
apn_dashed_unnormalized(q) == Str(q)

\* apn_dashed = normalize_apn(query); resolved_apn = apn_dashed
apn_dashed(q) == Str(normalize_apn(q))

\* main calls search_property, which strips and classifies the query.
EnterSearch ==
    /\ pc = "main"
    /\ ~args.demo
    /\ LET q == strip(Or(args.apn, args.address).s)
       IN  /\ query' = Str(q)
           /\ IF is_probable_apn(q)
              THEN /\ resolved_apn' = apn_dashed(q)
                   /\ pc' = "apn_exact"
              ELSE /\ UNCHANGED resolved_apn
                   /\ pc' = "geocode"
    /\ UNCHANGED <<args, net, calls, geo, feature, situs, raw, parsed, result,
                   output, exit_code, exc>>

\* The exact-match query followed by the substring query whether or not it
\* found a feature.
ApnExact_then_always_like ==
    /\ pc = "apn_exact"
    /\ \E r \in FeatureResponses : \E res \in {arcgis_query_parcel_by_apn(r)} :
        /\ net' = r
        /\ Called("exact", resolved_apn, Outcome(r, res))
        /\ feature' = res.val
        /\ pc' = "apn_like"
        /\ UNCHANGED <<situs, exit_code, exc>>
    /\ UNCHANGED <<args, query, geo, resolved_apn, raw, parsed, result, output>>

\* APN path: the exact-match query.
ApnExact ==
    /\ pc = "apn_exact"
    /\ \E r \in FeatureResponses : \E res \in {arcgis_query_parcel_by_apn(r)} :
        /\ net' = r
        /\ Called("exact", resolved_apn, Outcome(r, res))
        /\ IF res.exc # "none"
           THEN Crash(res.exc, "search_property") /\ UNCHANGED <<feature, situs>>
           ELSE /\ feature' = res.val
                /\ IF Truthy(res.val)
                   THEN situs' = extract_situs_from_feature(res.val) /\ pc' = "page"
                   ELSE UNCHANGED situs /\ pc' = "apn_like"
                /\ UNCHANGED <<exit_code, exc>>
    /\ UNCHANGED <<args, query, geo, resolved_apn, raw, parsed, result, output>>

\* APN path: the substring query on the bare digits of the query.
ApnLike ==
    /\ pc = "apn_like"
    /\ \E r \in FeatureResponses : \E res \in {arcgis_query_parcel_by_apn_like(r)} :
        /\ net' = r
        /\ Called("like", Str(BareDigits(query.s)), Outcome(r, res))
        /\ IF res.exc # "none"
           THEN Crash(res.exc, "search_property") /\ UNCHANGED <<feature, situs>>
           ELSE /\ feature' = res.val
                /\ situs' = IF Truthy(res.val)
                            THEN extract_situs_from_feature(res.val)
                            ELSE None
                /\ pc' = "page"
                /\ UNCHANGED <<exit_code, exc>>
    /\ UNCHANGED <<args, query, geo, resolved_apn, raw, parsed, result, output>>

\* Address path: geocode; without a candidate search_property returns at once.
Geocode ==
    /\ pc = "geocode"
    /\ \E r \in GeocodeResponses : \E res \in {arcgis_geocode_address(r)} :
        /\ net' = r
        /\ Called("geocode", query, Outcome(r, res))
        /\ IF res.exc # "none"
           THEN Crash(res.exc, "search_property") /\ UNCHANGED <<geo, raw>>
           ELSE /\ geo' = res.val
                /\ IF ~Truthy(res.val)
                   THEN /\ raw' = RawSearchResult(None, None, None, None)
                        /\ pc' = "seed"
                   ELSE /\ UNCHANGED raw
                        /\ pc' = IF Truthy(ApnFromGeo(res.val))
                                 THEN "geo_exact"
                                 ELSE "spatial"
                /\ UNCHANGED <<exit_code, exc>>
    /\ UNCHANGED <<args, query, feature, resolved_apn, situs, parsed, result,
                   output>>

\* if feature: resolved_apn = feature["attributes"].get("APN"), then the situs
FeatureFound(f) ==
    LET apn == FeatureApnGet(f)
    IN  IF apn.exc # "none"
        THEN Crash(apn.exc, "search_property") /\ UNCHANGED <<resolved_apn, situs>>
        ELSE /\ resolved_apn' = apn.val
             /\ situs' = extract_situs_from_feature(f)
             /\ pc' = "page"
             /\ UNCHANGED <<exit_code, exc>>

\* Address path: the exact-match query on the geocoder's parcel id.
GeoExact ==
    /\ pc = "geo_exact"
    /\ \E r \in FeatureResponses : \E res \in {arcgis_query_parcel_by_apn(r)} :
        /\ net' = r
        /\ Called("exact", Str(ApnNorm), Outcome(r, res))
        /\ IF res.exc # "none"
           THEN /\ Crash(res.exc, "search_property")
                /\ UNCHANGED <<feature, resolved_apn, situs>>
           ELSE /\ feature' = res.val
                /\ IF Truthy(res.val)
                   THEN FeatureFound(res.val)
                   ELSE /\ pc' = "geo_like"
                        /\ UNCHANGED <<resolved_apn, situs, exit_code, exc>>
    /\ UNCHANGED <<args, query, geo, raw, parsed, result, output>>

\* Address path: the substring query on the bare digits of that parcel id.
GeoLike ==
    /\ pc = "geo_like"
    /\ \E r \in FeatureResponses : \E res \in {arcgis_query_parcel_by_apn_like(r)} :
        /\ net' = r
        /\ Called("like", Str(BareDigits(ApnNorm)), Outcome(r, res))
        /\ IF res.exc # "none"
           THEN /\ Crash(res.exc, "search_property")
                /\ UNCHANGED <<feature, resolved_apn, situs>>
           ELSE /\ feature' = res.val
                /\ IF Truthy(res.val)
                   THEN FeatureFound(res.val)
                   ELSE /\ pc' = "spatial"
                        /\ UNCHANGED <<resolved_apn, situs, exit_code, exc>>
    /\ UNCHANGED <<args, query, geo, raw, parsed, result, output>>

\* Address path: the spatial query at the candidate's location, made only
\* when the location has both coordinates.
Spatial ==
    /\ pc = "spatial"
    /\ LET x == Get(geo.location, "x")
           y == Get(geo.location, "y")
           in_wkid == GetDefault(Or(Get(geo, "spatialReference"), EmptyDict),
                                 "wkid", PyInt(DEFAULT_WKID))
       IN  IF x # None /\ y # None
           THEN \E r \in FeatureResponses :
                \E res \in {arcgis_query_parcel_by_point(r)} :
                LET apn == IF res.exc # "none" THEN res
                           ELSE IF Truthy(res.val) THEN FeatureApnIndex(res.val)
                           ELSE Ok(None)
                IN  /\ net' = r
                    /\ Called("point", [x |-> x, y |-> y, wkid |-> in_wkid],
                              Outcome(r, res))
                    /\ IF apn.exc # "none"
                       THEN /\ Crash(apn.exc, "search_property")
                            /\ feature' = IF res.exc # "none" THEN feature ELSE res.val
                            /\ UNCHANGED <<resolved_apn, situs>>
                       ELSE /\ feature' = res.val
                            /\ resolved_apn' = apn.val
                            /\ situs' = IF Truthy(res.val)
                                        THEN extract_situs_from_feature(res.val)
                                        ELSE None
                            /\ pc' = "page"
                            /\ UNCHANGED <<exit_code, exc>>
           ELSE /\ situs' = None
                /\ pc' = "page"
                /\ UNCHANGED <<net, calls, feature, resolved_apn, exit_code, exc>>
    /\ UNCHANGED <<args, query, geo, raw, parsed, result, output>>

\* The assessor page, fetched only for a resolved parcel id; search_property
\* returns.  quote_plus raises TypeError on a parcel id that is not a str.
PageFetch ==
    /\ pc = "page"
    /\ IF Truthy(resolved_apn)
       THEN IF ~IsStr(resolved_apn)
            THEN /\ Crash("TypeError", "search_property")
                 /\ UNCHANGED <<net, calls, raw>>
            ELSE \E r \in PageResponses : \E res \in {fetch_assessor_html(r)} :
                 /\ net' = r
                 /\ Called("page", resolved_apn, Outcome(r, res))
                 /\ IF res.exc # "none"
                    THEN Crash(res.exc, "search_property") /\ UNCHANGED raw
                    ELSE /\ raw' = RawSearchResult(resolved_apn, situs, feature,
                                                   res.val)
                         /\ pc' = "seed"
                         /\ UNCHANGED <<exit_code, exc>>
       ELSE /\ raw' = RawSearchResult(resolved_apn, situs, feature, None)
            /\ pc' = "seed"
            /\ UNCHANGED <<net, calls, exit_code, exc>>
    /\ UNCHANGED <<args, query, geo, feature, resolved_apn, situs, parsed, result,
                   output>>

\* The record seeded with the geospatial skeleton.
SeedRecord(r) ==
    [apn |-> r.apn,
     situs_address |-> Or(r.situs, NullAddress),
     owner_names |-> <<>>,
     owner_mailing_address |-> NullAddress,
     owner_type |-> None,
     last_transfer |-> [recording_date |-> None, doc_number |-> None, price |-> None],
     assessed_values |-> [land |-> None, improvements |-> None, total |-> None,
                          year |-> None],
     homeowner_exemption |-> None,
     property_details |-> [use_code |-> None, year_built |-> None,
                           living_sqft |-> None, lot_sqft |-> None],
     recorder_doc_url |-> None]

\* The terminal test with `or` in place of `and`.
NothingResolved_either(r) == ~Truthy(r.apn) \/ ~Truthy(r.assessor_html)

\* if not raw.apn and not raw.assessor_html
NothingResolved(r) == ~Truthy(r.apn) /\ ~Truthy(r.assessor_html)

\* main seeds the record; with neither parcel id nor page it writes the seed
\* and exits with status 2.
Seed ==
    /\ pc = "seed"
    /\ result' = SeedRecord(raw)
    /\ IF NothingResolved(raw)
       THEN /\ Saved(result')
            /\ exit_code' = 2
            /\ pc' = "exit"
       ELSE /\ pc' = "merge"
            /\ UNCHANGED <<output, exit_code>>
    /\ UNCHANGED <<args, query, net, calls, geo, feature, resolved_apn, situs,
                   raw, parsed, exc>>

\* The situs choice with `or` in place of `and`.
MergedSitus_either(skeleton, p_situs) ==
    IF Truthy(Get(p_situs, "street")) \/ Truthy(Get(p_situs, "city"))
    THEN p_situs
    ELSE skeleton

\* if p_situs.get("street") and p_situs.get("city"): the page's situs,
\* else the skeleton's
MergedSitus(skeleton, p_situs) ==
    IF Truthy(Get(p_situs, "street")) /\ Truthy(Get(p_situs, "city"))
    THEN p_situs
    ELSE skeleton

\* The record after the page's fields are merged into it.
MergeRecord(res, p) ==
    [apn |-> Or(res.apn, p.apn),
     situs_address |->
         MergedSitus(res.situs_address, Or(p.situs_address, EmptyDict)),
     owner_names |-> p.owner_names,
     owner_mailing_address |->
         Or(p.owner_mailing_address, res.owner_mailing_address),
     owner_type |-> p.owner_type,
     last_transfer |-> Or(p.last_transfer, res.last_transfer),
     assessed_values |-> Or(p.assessed_values, res.assessed_values),
     homeowner_exemption |-> p.homeowner_exemption,
     property_details |-> Or(p.property_details, res.property_details),
     recorder_doc_url |-> p.recorder_doc_url]

\* main parses the page, when there is one, and merges.
Merge ==
    /\ pc = "merge"
    /\ IF Truthy(raw.assessor_html)
       THEN \E p \in {parse_property_page(raw.assessor_html)} :
                IF p.exc # "none"
                THEN /\ Crash(p.exc, "parse_property_page")
                     /\ UNCHANGED <<parsed, result>>
                ELSE /\ parsed' = p.val
                     /\ result' = MergeRecord(result, p.val)
                     /\ pc' = "shape"
                     /\ UNCHANGED <<exit_code, exc>>
       ELSE /\ pc' = "shape"
            /\ UNCHANGED <<parsed, result, exit_code, exc>>
    /\ UNCHANGED <<args, query, net, calls, geo, feature, resolved_apn, situs,
                   raw, output>>

\* The record with its nested keys re-asserted.
ShapeRecord(res) ==
    LET sub(k) == Or(Get(res, k), EmptyDict)
    IN  [apn |-> Get(res, "apn"),
         situs_address |->
             [street |-> Get(sub("situs_address"), "street"),
              city |-> Get(sub("situs_address"), "city"),
              state |-> Get(sub("situs_address"), "state"),
              zip |-> Get(sub("situs_address"), "zip")],
         owner_names |-> res.owner_names,
         owner_mailing_address |->
             [street |-> Get(sub("owner_mailing_address"), "street"),
              city |-> Get(sub("owner_mailing_address"), "city"),
              state |-> Get(sub("owner_mailing_address"), "state"),
              zip |-> Get(sub("owner_mailing_address"), "zip")],
         owner_type |-> Get(res, "owner_type"),
         last_transfer |->
             [recording_date |-> Get(sub("last_transfer"), "recording_date"),
              doc_number |-> Get(sub("last_transfer"), "doc_number"),
              price |-> Get(sub("last_transfer"), "price")],
         assessed_values |->
             [land |-> Get(sub("assessed_values"), "land"),
              improvements |-> Get(sub("assessed_values"), "improvements"),
              total |-> Get(sub("assessed_values"), "total"),
              year |-> Get(sub("assessed_values"), "year")],
         homeowner_exemption |-> Get(res, "homeowner_exemption"),
         property_details |->
             [use_code |-> Get(sub("property_details"), "use_code"),
              year_built |-> Get(sub("property_details"), "year_built"),
              living_sqft |-> Get(sub("property_details"), "living_sqft"),
              lot_sqft |-> Get(sub("property_details"), "lot_sqft")],
         recorder_doc_url |-> Get(res, "recorder_doc_url")]

\* main normalizes the structure, writes the record and returns.
Shape ==
    /\ pc = "shape"
    /\ result' = ShapeRecord(result)
    /\ Saved(result')
    /\ exit_code' = 0
    /\ pc' = "exit"
    /\ UNCHANGED <<args, query, net, calls, geo, feature, resolved_apn, situs,
                   raw, parsed, exc>>

Next ==
    \/ Demo
    \/ EnterSearch
    \/ ApnExact
    \/ ApnLike
    \/ Geocode
    \/ GeoExact
    \/ GeoLike
    \/ Spatial
    \/ PageFetch
    \/ Seed
    \/ Merge
    \/ Shape

Spec == Init /\ [][Next]_vars

-----------------------------------------------------------------------------
(* Observations on a run.                                                  *)

\* The remote calls made so far, without the pacing sleeps.
RemoteCalls == SelectSeq(calls, LAMBDA c : c.op # "sleep")

\* The feature-query calls made so far.
FeatureQueries ==
    SelectSeq(calls, LAMBDA c : c.op \in {"exact", "like", "point"})

\* The record-page fetches made so far.
PageCalls == SelectSeq(calls, LAMBDA c : c.op = "page")

\* search_property classified the query as a parcel id / as an address.
ApnPath == query # None /\ is_probable_apn(query.s)
AddressPath == query # None /\ ~is_probable_apn(query.s)

\* The exact-match query returned no feature; the substring query returned
\* one / none.
ExactMissed ==
    \E i \in DOMAIN FeatureQueries :
        FeatureQueries[i].op = "exact" /\ FeatureQueries[i].out # "hit"
LikeHit ==
    \E i \in DOMAIN FeatureQueries :
        FeatureQueries[i].op = "like" /\ FeatureQueries[i].out = "hit"
LikeMissed ==
    \E i \in DOMAIN FeatureQueries :
        FeatureQueries[i].op = "like" /\ FeatureQueries[i].out # "hit"

\* The parcel id a feature carries in its attributes, None when it has none.
ParcelIdOf(f) == Get(Or(Get(f, "attributes"), EmptyDict), "APN")

\* The query in 3-2-4 dashed form when it holds exactly nine digits, the
\* stripped query otherwise.
QueryIdentifier ==
    LET d == SelectSeq(query.s, LAMBDA c : c \in Digit)
    IN  IF Len(d) = 9
        THEN Str(<<d[1], d[2], d[3], "-", d[4], d[5], "-", d[6], d[7], d[8], d[9]>>)
        ELSE query

\* The record whose every leaf is null.
AllNullRecord == SeedRecord(RawSearchResult(None, None, None, None))

-----------------------------------------------------------------------------
(* C1 as stated.  For a query classified as a parcel id, when the exact    *)
(* query returns no feature and the substring query returns one,           *)
(* search_property makes exactly two feature-query calls and the           *)
(* identifier it returns equals the parcel id in that feature's            *)
(* attributes.                                                             *)
C1_AsStated ==
    (raw # None /\ ApnPath /\ ExactMissed /\ LikeHit)
        => /\ Len(FeatureQueries) = 2
           /\ raw.apn = ParcelIdOf(raw.parcel_feature)

(* C1, amended.  For a query classified as a parcel id, when the exact     *)
(* query returns no feature and the substring query on the bare digits     *)
(* returns one, exactly two feature-query calls are made (exact first,     *)
(* then substring), the substring query's feature is returned, and the     *)
(* identifier returned is the normalized query, whatever parcel id the     *)
(* feature carries.                                                        *)
C1_Amended ==
    (ApnPath /\ ExactMissed /\ LikeHit)
        => /\ Len(FeatureQueries) = 2
           /\ FeatureQueries[1].op = "exact"
           /\ FeatureQueries[1].arg = QueryIdentifier
           /\ FeatureQueries[2].op = "like"
           /\ FeatureQueries[2].arg = Str(SelectSeq(query.s, LAMBDA c : c \in Digit))
           /\ raw # None => /\ raw.apn = QueryIdentifier
                            /\ raw.parcel_feature # None

\* The substring query found the parcel under its undashed id; the identifier
\* returned is the dashed query, not the id the feature carries.
C1_Witness ==
    /\ pc = "exit"
    /\ exit_code = 0
    /\ ApnPath /\ ExactMissed /\ LikeHit
    /\ ParcelIdOf(raw.parcel_feature) = Str(s_apn_bare)
    /\ raw.apn = Str(s_apn_dashed)

-----------------------------------------------------------------------------
(* C2 as stated.  For a query classified as a parcel id for which both     *)
(* feature queries return no feature, no identifier is resolved, the page  *)
(* fetch is never attempted, and main writes the all-null record and       *)
(* exits with code 2.                                                      *)
C2_AsStated ==
    (pc = "exit" /\ ApnPath /\ ExactMissed /\ LikeMissed)
        => /\ raw # None
           /\ raw.apn = None
           /\ PageCalls = <<>>
           /\ exit_code = 2
           /\ output = <<AllNullRecord>>

(* C2, amended.  For a query classified as a parcel id for which both      *)
(* feature queries return no feature, search_property returns the          *)
(* normalized query as the identifier, with null feature and null situs,   *)
(* and attempts the page fetch exactly once with that identifier; main     *)
(* never exits with code 2: it either writes one record whose apn is that  *)
(* identifier and exits 0, or ends with an exception raised while parsing  *)
(* the fetched page and writes nothing.                                    *)
C2_Amended ==
    (raw # None /\ ApnPath /\ ExactMissed /\ LikeMissed)
        => /\ raw.apn = QueryIdentifier
           /\ raw.parcel_feature = None
           /\ raw.situs = None
           /\ Len(PageCalls) = 1
           /\ PageCalls[1].arg = QueryIdentifier
           /\ exit_code # 2
           /\ pc = "exit" =>
                \/ /\ exit_code = 0
                   /\ Len(output) = 1
                   /\ output[1].apn = QueryIdentifier
                \/ /\ exit_code = 1
                   /\ exc.from = "parse_property_page"
                   /\ output = <<>>

\* Nothing was found anywhere (both queries empty, the page fetch failed),
\* and main still exits 0 with the query as the record's apn.
C2_Witness ==
    /\ pc = "exit"
    /\ ApnPath /\ ExactMissed /\ LikeMissed
    /\ raw.assessor_html = None
    /\ exit_code = 0
    /\ output[1].apn = Str(s_apn_dashed)

-----------------------------------------------------------------------------
(* C3.  On the address path a non-null identifier returned by              *)
(* search_property is the parcel id attribute of the feature it returns,   *)
(* which a feature query produced; when no feature was obtained the        *)
(* identifier is null, whatever parcel id the geocoder's candidate         *)
(* carries.  That parcel id only builds the exact and substring queries.   *)
C3_IdentifierFromFeature ==
    /\ (AddressPath /\ raw # None) =>
          /\ raw.apn # None =>
                /\ raw.parcel_feature # None
                /\ "attributes" \in DOMAIN raw.parcel_feature
                /\ raw.parcel_feature.attributes # None
                /\ "APN" \in DOMAIN raw.parcel_feature.attributes
                /\ raw.apn = raw.parcel_feature.attributes["APN"]
          /\ raw.parcel_feature # None =>
                \E i \in DOMAIN FeatureQueries : FeatureQueries[i].out = "hit"
          /\ raw.parcel_feature = None => raw.apn = None
    /\ AddressPath =>
          \A i \in DOMAIN FeatureQueries :
              /\ FeatureQueries[i].op = "exact" =>
                    /\ Truthy(ApnFromGeo(geo))
                    /\ FeatureQueries[i].arg = Str(ApnNorm)
              /\ FeatureQueries[i].op = "like" =>
                    /\ Truthy(ApnFromGeo(geo))
                    /\ FeatureQueries[i].arg = Str(BareDigits(ApnNorm))

\* The geocoder named one parcel and the feature that came back is another:
\* the identifier returned is the feature's.
C3_Witness ==
    /\ pc = "exit"
    /\ AddressPath
    /\ raw # None
    /\ Truthy(ApnFromGeo(geo))
    /\ raw.apn # None
    /\ raw.apn # Str(ApnNorm)
    /\ raw.apn = ParcelIdOf(raw.parcel_feature)

-----------------------------------------------------------------------------
(* C4.  arcgis_geocode_address discards every candidate whose score is     *)
(* below 70, ranks the rest by descending score with ties in the           *)
(* service's order, and returns the first; when none survives,             *)
(* search_property returns null identifier, feature, situs and markup and  *)
(* makes no remote call after the geocode call.                            *)
C4_GeocodeRanking ==
    /\ (calls # <<>> /\ calls[Len(calls)].op = "geocode" /\ net.ok) =>
          LET cs == net.candidates
              score(c) == IF "score" \in DOMAIN c THEN c.score ELSE 0
              viable == {i \in DOMAIN cs : score(cs[i]) >= 70}
              ranked == SortByScoreDesc(ViableCandidates(cs))
          IN  /\ Len(ranked) = Cardinality(viable)
              /\ \A i \in DOMAIN ranked : score(ranked[i]) >= 70
              /\ \A i, j \in DOMAIN ranked :
                    i < j => score(ranked[i]) >= score(ranked[j])
              /\ \A v \in {score(cs[i]) : i \in viable} :
                    SelectSeq(ranked, LAMBDA c : score(c) = v)
                        = SelectSeq(cs, LAMBDA c : score(c) = v)
              /\ IF viable = {}
                 THEN geo = None
                 ELSE \E i \in viable :
                        /\ \A j \in viable :
                              /\ score(cs[j]) <= score(cs[i])
                              /\ j < i => score(cs[j]) < score(cs[i])
                        /\ \A k \in DOMAIN cs[i] : geo[k] = cs[i][k]
    /\ (RemoteCalls # <<>> /\ RemoteCalls[1].op = "geocode"
            /\ RemoteCalls[1].out # "hit") =>
          /\ Len(RemoteCalls) = 1
          /\ raw = RawSearchResult(None, None, None, None)

\* Scores 69, 95, 95: the 69 is dropped and of the two tied candidates the
\* one the service listed first is returned.
C4_Witness ==
    /\ calls # <<>>
    /\ calls[Len(calls)].op = "geocode"
    /\ net.ok
    /\ net.candidates = <<CandD, CandB, CandA>>
    /\ geo # None
    /\ geo.location = CandB.location

-----------------------------------------------------------------------------
(* C5.  A transport failure on any single remote call of search_property   *)
(* counts as no result for that call only: no exception leaves             *)
(* search_property because of it, the pipeline goes on to the step that    *)
(* follows an empty result, and a failed page fetch yields null markup     *)
(* while the identifier, feature and situs already obtained are returned.  *)
C5_FailureIsNoResult ==
    /\ \A k \in DOMAIN RemoteCalls :
          RemoteCalls[k].out = "fail" =>
              IF k < Len(RemoteCalls)
              THEN \/ /\ RemoteCalls[k].op = "exact"
                      /\ RemoteCalls[k + 1].op = "like"
                   \/ /\ RemoteCalls[k].op = "like"
                      /\ RemoteCalls[k + 1].op = IF ApnPath THEN "page" ELSE "point"
              ELSE /\ exc.from # "search_property"
                   /\ \/ /\ RemoteCalls[k].op = "exact"
                         /\ pc \in {"apn_like", "geo_like"}
                      \/ /\ RemoteCalls[k].op = "like"
                         /\ ApnPath
                         /\ pc = "page"
                      \/ /\ RemoteCalls[k].op = "like"
                         /\ AddressPath
                         /\ pc = "spatial" \/ (Get(geo.location, "x") = None
                                                \/ Get(geo.location, "y") = None)
                      \/ /\ RemoteCalls[k].op = "geocode"
                         /\ pc \in {"seed", "exit"}
                      \/ /\ RemoteCalls[k].op = "point"
                         /\ pc \in {"page", "seed", "exit"}
                      \/ /\ RemoteCalls[k].op = "page"
                         /\ pc \in {"seed", "merge", "shape", "exit"}
    /\ (PageCalls # <<>> /\ PageCalls[1].out = "fail") =>
          /\ raw # None
          /\ raw.assessor_html = None
          /\ raw.apn = PageCalls[1].arg
          /\ Truthy(raw.apn)
          /\ (\E i \in DOMAIN FeatureQueries : FeatureQueries[i].out = "hit") =>
                /\ raw.parcel_feature # None
                /\ raw.situs # None
          /\ exit_code \in {-1, 0}

\* Every remote call of the parcel-id path failed, and main still wrote a
\* record and exited 0.
C5_Witness ==
    /\ pc = "exit"
    /\ exit_code = 0
    /\ Len(RemoteCalls) = 3
    /\ \A k \in DOMAIN RemoteCalls : RemoteCalls[k].out = "fail"
    /\ Len(output) = 1

-----------------------------------------------------------------------------
(* C6 as stated.  No exception escapes search_property for any response    *)
(* of the remote services: a feature without an attribute mapping or       *)
(* without a parcel id attribute still leads to a RawSearchResult.         *)
C6_AsStated == exc.from # "search_property"

-----------------------------------------------------------------------------
(* C7 as stated.  For every outcome of search_property, main exits with    *)
(* code 2 exactly when neither an identifier nor page markup was resolved  *)
(* and with code 0 otherwise, and in both cases a record has been written  *)
(* when the process ends.                                                  *)
C7_AsStated ==
    (pc = "exit" /\ raw # None)
        => /\ exit_code \in {0, 2}
           /\ exit_code = 2 <=> (~Truthy(raw.apn) /\ ~Truthy(raw.assessor_html))
           /\ Len(output) = 1

-----------------------------------------------------------------------------
(* C8 as stated.  Every record main writes has exactly the fixed key set:  *)
(* the ten top-level keys and, in each nested object, exactly its          *)
(* declared keys.                                                          *)
C8_AsStated ==
    \A i \in DOMAIN output :
        /\ DOMAIN output[i] =
              {"apn", "situs_address", "owner_names", "owner_mailing_address",
               "owner_type", "last_transfer", "assessed_values",
               "homeowner_exemption", "property_details", "recorder_doc_url"}
        /\ DOMAIN output[i].situs_address = {"street", "city", "state", "zip"}
        /\ DOMAIN output[i].owner_mailing_address = {"street", "city", "state", "zip"}
        /\ DOMAIN output[i].last_transfer = {"recording_date", "doc_number", "price"}
        /\ DOMAIN output[i].assessed_values = {"land", "improvements", "total", "year"}
        /\ DOMAIN output[i].property_details =
              {"use_code", "year_built", "living_sqft", "lot_sqft"}

-----------------------------------------------------------------------------
(* C9 as stated.  When page markup was fetched and merged: if the page's   *)
(* situs address has both a non-null street and a non-null city, the       *)
(* output situs address is entirely the page's; otherwise it is entirely   *)
(* the geospatial skeleton's.                                              *)
C9_AsStated ==
    (pc = "exit" /\ exit_code = 0 /\ raw # None /\ parsed # None)
        => LET page == parsed.situs_address
               skeleton == Or(raw.situs, NullAddress)
               out == output[1].situs_address
           IN  IF page.street # None /\ page.city # None
               THEN out = page
               ELSE \A k \in {"street", "city", "state", "zip"} : out[k] = skeleton[k]

(* C9, amended.  When page markup was fetched and merged: if the page's    *)
(* situs address has both a non-empty street and a non-empty city (null    *)
(* and the empty string both count as empty), the output situs address is  *)
(* entirely the page's; otherwise it is entirely the geospatial            *)
(* skeleton's, with no field taken from the page.                          *)
C9_Amended ==
    (pc = "exit" /\ exit_code = 0 /\ raw # None /\ parsed # None)
        => LET page == parsed.situs_address
               skeleton == Or(raw.situs, NullAddress)
               out == output[1].situs_address
               present(v) == v # None /\ v # Str(<<>>)
           IN  IF present(page.street) /\ present(page.city)
               THEN out = page
               ELSE \A k \in {"street", "city", "state", "zip"} : out[k] = skeleton[k]

\* Both sources have a situs address and the streets differ: the page's
\* replaces the skeleton's.
C9_Witness ==
    /\ pc = "exit"
    /\ exit_code = 0
    /\ raw # None
    /\ parsed # None
    /\ raw.situs # None
    /\ Truthy(raw.situs.street)
    /\ Truthy(parsed.situs_address.street)
    /\ Truthy(parsed.situs_address.city)
    /\ raw.situs.street # parsed.situs_address.street
    /\ output[1].situs_address = parsed.situs_address

-----------------------------------------------------------------------------
(* C10 as stated.  parse_property_page applied to DEMO_HTML yields apn     *)
(* "235-12-003", situs_address {"123 Sample St", "San Jose", "CA",         *)
(* "95123"}, owner_names ["JANE DOE TRUST"], owner_type "trust",           *)
(* homeowner_exemption true, year_built 1978, living_sqft 1234, lot_sqft   *)
(* 6098, assessed_values {900000, 450000, 1350000, 2024}, last_transfer    *)
(* {"06/15/2021", "12345678", 1250000} and a non-null recorder_doc_url.    *)
C10_AsStated ==
    (pc = "exit" /\ args.demo)
        => /\ exit_code = 0
           /\ parsed.apn = Str(<<"2","3","5","-","1","2","-","0","0","3">>)
           /\ parsed.situs_address =
                 [street |-> Str(<<"1","2","3"," ","S","a","m","p","l","e"," ","S","t">>),
                  city |-> Str(<<"S","a","n"," ","J","o","s","e">>),
                  state |-> Str(<<"C","A">>),
                  zip |-> Str(<<"9","5","1","2","3">>)]
           /\ parsed.owner_names =
                 <<Str(<<"J","A","N","E"," ","D","O","E"," ","T","R","U","S","T">>)>>
           /\ parsed.owner_type = Str(<<"t","r","u","s","t">>)
           /\ parsed.homeowner_exemption = PyBool(TRUE)
           /\ parsed.property_details.year_built = PyInt(1978)
           /\ parsed.property_details.living_sqft = PyInt(1234)
           /\ parsed.property_details.lot_sqft = PyInt(6098)
           /\ parsed.assessed_values =
                 [land |-> PyInt(900000), improvements |-> PyInt(450000),
                  total |-> PyInt(1350000), year |-> PyInt(2024)]
           /\ parsed.last_transfer =
                 [recording_date |-> Str(<<"0","6","/","1","5","/","2","0","2","1">>),
                  doc_number |-> Str(<<"1","2","3","4","5","6","7","8">>),
                  price |-> PyInt(1250000)]
           /\ parsed.recorder_doc_url # None

-----------------------------------------------------------------------------
(* Observations on a parse.                                                *)

\* The rows of the page main parsed.
ParsedRows == IF args.demo THEN DEMO_HTML.rows ELSE raw.assessor_html.rows

\* parse_property_page has just returned to main.
JustParsed ==
    /\ parsed # None
    /\ \/ pc = "exit" /\ args.demo
       \/ pc = "shape"

\* s holds yes, y or true, in any case, as a whole word.
HasAffirmativeToken(s) ==
    \E i \in 1..Len(s) : \E j \in i..Len(s) :
        /\ [n \in 1..(j - i + 1) |-> ToLower(s[i + n - 1])]
              \in {<<"y","e","s">>, <<"y">>, <<"t","r","u","e">>}
        /\ i = 1 \/ s[i - 1] \notin WordChar
        /\ j = Len(s) \/ s[j + 1] \notin WordChar

-----------------------------------------------------------------------------
(* C11.  homeowner_exemption is true when the exemption label is found     *)
(* and its text holds an affirmative token (yes / y / true, in any case),  *)
(* false when the label is found with non-empty text that holds no         *)
(* affirmative token, and null exactly when no exemption label value is    *)
(* found.                                                                  *)
C11_ExemptionFlag ==
    JustParsed =>
        \A kv \in {Harvest(ParsedRows, Len(ParsedRows))} :
        \A hx \in {find_first(ParsedRows, kv, _LABEL_ALIASES.homeowner_exemption)} :
            /\ hx # None => hx.s # <<>>
            /\ parsed.homeowner_exemption =
                  IF hx = None THEN None
                  ELSE IF HasAffirmativeToken(hx.s) THEN PyBool(TRUE)
                  ELSE PyBool(FALSE)

\* The label is there and its text, "Not yet", holds the letter y but no
\* affirmative token: the flag is an explicit false.
C11_Witness ==
    /\ pc = "shape"
    /\ raw.assessor_html = PageFullSitus
    /\ parsed.homeowner_exemption = PyBool(FALSE)

-----------------------------------------------------------------------------
(* C12.  In every run of search_property the remote strategies execute     *)
(* strictly in the declared order (parcel-id path: exact, substring, page  *)
(* fetch; address path: geocode, exact, substring, spatial, page fetch),   *)
(* each at most once per query even when it fails, and a fallback          *)
(* strategy is invoked only if its predecessor produced no feature.        *)
C12_DeclaredOrder ==
    LET rank(op) ==
            CASE op = "geocode" -> 1
              [] op = "exact" -> 2
              [] op = "like" -> 3
              [] op = "point" -> 4
              [] op = "page" -> 5
    IN  /\ \A j, k \in DOMAIN RemoteCalls :
              j < k => rank(RemoteCalls[j].op) < rank(RemoteCalls[k].op)
        /\ \A k \in DOMAIN RemoteCalls :
              /\ ApnPath => RemoteCalls[k].op \in {"exact", "like", "page"}
              /\ (ApnPath /\ k = 1) => RemoteCalls[k].op = "exact"
              /\ (AddressPath /\ k = 1) => RemoteCalls[k].op = "geocode"
              /\ (AddressPath /\ k > 1) => RemoteCalls[1].out = "hit"
              /\ RemoteCalls[k].op = "like" =>
                    /\ k > 1
                    /\ RemoteCalls[k - 1].op = "exact"
                    /\ RemoteCalls[k - 1].out # "hit"
              /\ RemoteCalls[k].op = "point" =>
                    \A j \in 1..(k - 1) : RemoteCalls[j].out # "hit"
                                            \/ RemoteCalls[j].op = "geocode"

\* The address path at full length, each strategy failing or coming back
\* empty until the spatial query finds the parcel.
C12_Witness ==
    /\ pc = "exit"
    /\ Len(RemoteCalls) = 5
    /\ RemoteCalls[1].op = "geocode"
    /\ RemoteCalls[2].op = "exact" /\ RemoteCalls[2].out = "fail"
    /\ RemoteCalls[3].op = "like" /\ RemoteCalls[3].out = "none"
    /\ RemoteCalls[4].op = "point" /\ RemoteCalls[4].out = "hit"
    /\ RemoteCalls[5].op = "page"

-----------------------------------------------------------------------------
(* C13 as stated.  A fixed pacing delay is inserted after every remote     *)
(* call of search_property, whether the call succeeded or failed, so that  *)
(* any two consecutive remote calls are separated by at least one delay.   *)
C13_AsStated ==
    pc = "exit" =>
        /\ \A i \in DOMAIN calls :
              calls[i].op # "sleep" =>
                  /\ i < Len(calls)
                  /\ calls[i + 1].op = "sleep"
        /\ \A i, j \in DOMAIN calls :
              (i < j /\ calls[i].op # "sleep" /\ calls[j].op # "sleep") =>
                  \E k \in (i + 1)..(j - 1) : calls[k].op = "sleep"

(* C13, amended.  A fixed pacing delay is inserted immediately before      *)
(* every remote call of search_property, the first one included, whether   *)
(* the previous call succeeded or failed, so that any two consecutive      *)
(* remote calls are separated by exactly one delay; no delay follows the   *)
(* last remote call.                                                       *)
C13_Amended ==
    /\ \A i \in DOMAIN calls :
          calls[i].op # "sleep" =>
              /\ i > 1
              /\ calls[i - 1].op = "sleep"
    /\ \A i \in DOMAIN calls :
          calls[i].op = "sleep" =>
              /\ i < Len(calls)
              /\ calls[i + 1].op # "sleep"
    /\ \A i, j \in DOMAIN calls :
          (i < j /\ calls[i].op # "sleep" /\ calls[j].op # "sleep") =>
              \E k \in (i + 1)..(j - 1) : calls[k].op = "sleep"

\* Five remote calls, two of them failed, and five delays, one in front of
\* each call.
C13_Witness ==
    /\ pc = "exit"
    /\ Len(RemoteCalls) = 5
    /\ Len(calls) = 10
    /\ RemoteCalls[2].out = "fail"
    /\ RemoteCalls[5].out = "fail"
    /\ calls[1].op = "sleep"
    /\ calls[10].op = "page"

-----------------------------------------------------------------------------
\* The value of the first harvested label, in document order, that the
\* pattern matches; None when it matches none.
MappingValue(kv, pat) ==
    IF \E n \in 1..Len(kv) : Search(pat, kv[n][1])
    THEN Str(kv[CHOOSE n \in 1..Len(kv) :
                    /\ Search(pat, kv[n][1])
                    /\ \A m \in 1..(n - 1) : ~Search(pat, kv[m][1])][2])
    ELSE None

(* C14 as stated.  In find_first a later pattern and the document-wide     *)
(* fallback are consulted only if every earlier pattern found nothing in   *)
(* the harvested mapping: whenever any pattern of the list matches a key   *)
(* of the mapping, the value returned comes from the mapping, for the      *)
(* earliest such pattern, and never from the document-wide fallback.       *)
C14_AsStated ==
    JustParsed =>
        \A kv \in {Harvest(ParsedRows, Len(ParsedRows))} :
        \A found \in {FoundFields(ParsedRows, kv)} :
        \A f \in DOMAIN _LABEL_ALIASES :
        \A inMap \in {[n \in DOMAIN _LABEL_ALIASES[f] |->
                          MappingValue(kv, _LABEL_ALIASES[f][n])]} :
            (\E n \in DOMAIN inMap : inMap[n] # None) =>
                \E n \in DOMAIN inMap :
                    /\ inMap[n] # None
                    /\ \A m \in 1..(n - 1) : inMap[m] = None
                    /\ found[f] = inMap[n]

(* C14, amended.  In find_first the patterns p1..pn are tried in order,    *)
(* each first against the harvested mapping and then, when it matches no   *)
(* key, through the document-wide sibling-text fallback for that same      *)
(* pattern; a later pattern is consulted only if every earlier pattern     *)
(* found nothing in the mapping and nothing through its fallback.  The     *)
(* value returned is that of the first pattern that yields anything: from  *)
(* the mapping when that pattern matches a key, otherwise from its         *)
(* fallback, even if a later pattern matches a key of the mapping.         *)
C14_Amended ==
    JustParsed =>
        /\ \A kv \in {Harvest(ParsedRows, Len(ParsedRows))} :
           \A found \in {FoundFields(ParsedRows, kv)} :
           \A f \in DOMAIN _LABEL_ALIASES :
           \A yield \in {[n \in DOMAIN _LABEL_ALIASES[f] |->
                            IF MappingValue(kv, _LABEL_ALIASES[f][n]) # None
                            THEN MappingValue(kv, _LABEL_ALIASES[f][n])
                            ELSE DocLookup(ParsedRows, _LABEL_ALIASES[f][n])]} :
               /\ (\A n \in DOMAIN yield : yield[n] = None) => found[f] = None
               /\ \A n \in DOMAIN yield :
                     (yield[n] # None /\ \A m \in 1..(n - 1) : yield[m] = None)
                         => found[f] = yield[n]
               /\ f = "apn" => parsed.apn = found[f]
               /\ f = "use_code" => parsed.property_details.use_code = found[f]
               /\ f = "doc_number" => parsed.last_transfer.doc_number = found[f]
               /\ f = "recording_date" =>
                     parsed.last_transfer.recording_date = found[f]

\* The first apn pattern matches no label but finds "by APN" in a value
\* cell; the second matches the label "Assessor's Parcel Number".  The apn
\* is the text next to "by APN".
C14_Witness ==
    /\ pc = "shape"
    /\ raw.assessor_html = PageLookup
    /\ parsed.apn = Str(<<"o","r"," ","a","d","d","r","e","s","s">>)

====
